---- MODULE Spec2Model ----
(***************************************************************************)
(* damsafe: a Flask management surface (add, remove, data) and a polling   *)
(* daemon (server_command) that share one SQLite store, the file lock      *)
(* db.lock and the heartbeat file server_alive.                            *)
(***************************************************************************)
EXTENDS FiniteSets, Integers, Sequences, TLC

VARIABLES
    device,         \* table device: set of rows [id, name, ip, coil]
    device_seq,     \* last id handed out by the device table
    device_status,  \* table device_status in rowid order: rows [device_id, time, status, error]
    lock,           \* processes that hold FileLock('db.lock')
    server_alive,   \* mtime of the file server_alive, NoFile while it does not exist
    now,            \* wall clock, whole seconds
    dpc,            \* position of server_command
    device_rows,    \* server_command: the list fetched at line 219
    idx,            \* server_command: position of `row` in device_rows
    new_status,     \* server_command: local new_status
    error,          \* server_command: local error
    wake,           \* server_command: earliest time at which time.sleep(5) returns
    cycle_base,     \* history: Len(device_status) when the current list was fetched
    probed,         \* history: the condition met by the probe whose result awaits its insert
    wpc,            \* position of each web worker
    form,           \* request.form of the add request a worker is serving
    g,              \* flask.g of the data request being served, NoG outside one
    flashed         \* add: the local error of a request that is about to flash it

vars == <<device, device_seq, device_status, lock, server_alive, now, dpc,
          device_rows, idx, new_status, error, wake, cycle_base, probed,
          wpc, form, g, flashed>>

store_vars  == <<device, device_seq, device_status>>
daemon_vars == <<dpc, device_rows, idx, new_status, error, wake, cycle_base, probed>>
web_vars    == <<wpc, form, flashed>>

----------------------------------------------------------------------------
(* Bounds *)
MaxTime    == 5    \* the clock of Spec stops here
MaxDevices == 2    \* device rows ever inserted
MaxClock   == 11   \* the clock of SpecClock stops here

(* Program constants *)
SleepSeconds == 5
AliveWindow  == 10

Workers     == {"w1"}          \* web workers of Spec
RaceWorkers == {"w1", "w2"}    \* web workers of SpecWeb
Daemon  == "server"

\* form fields of add and remove requests; "" is a field left empty
Names == {"", "a", "b"}
Ips   == {"", "h"}
Coils == {"", "1"}
Filled(S) == S \ {""}

NULL    == "NULL"   \* SQL NULL / Python None in a text column
NoTime  == -1       \* SQL NULL / Python None in a time column
NoInt   == -1       \* SQL NULL / Python None in an integer column
NoFile  == -1       \* server_alive does not exist
NoAttr  == -1       \* the result object has no attribute exception_code
NoProbe == [cond |-> "none", code |-> NoAttr]
NoForm  == [name |-> "", ip |-> "", coil |-> ""]
NoG     == [device_rows |-> {}, server_status |-> "", last_status_check |-> ""]

----------------------------------------------------------------------------
(* FileLock('db.lock') *)
\* variant: the lock is handed out while it is held
LockFreeAlways(l)  == TRUE
LockFree(l)        == l = {}
LockAcquire(l, p)  == l \cup {p}
LockRelease(l, p)  == l \ {p}

----------------------------------------------------------------------------
(* The store *)

\* INSERT INTO device: the table hands out the next id
InsertDevice(tbl, seq, name, ip, coil) ==
    tbl \cup {[id |-> seq + 1, name |-> name, ip |-> ip, coil |-> coil]}

\* DELETE FROM device WHERE name = ?
DeleteDevice(tbl, name) == {r \in tbl : r.name # name}

\* SELECT id FROM device WHERE name = ?  ... fetchone() is not None
NameTaken(tbl, name) == \E r \in tbl : r.name = name

\* sqlite3 stores a Python bool as the integer 1 or 0
AdaptBool(b) == IF b THEN 1 ELSE 0

\* variant: a row is written only when the status differs from the device's last row
InsertStatusOnChange(tbl, device_id, t, status, err) ==
    LET mine == {i \in DOMAIN tbl : tbl[i].device_id = device_id}
        last == CHOOSE i \in mine : \A j \in mine : j <= i
    IN  IF mine # {} /\ tbl[last].status = AdaptBool(status)
        THEN tbl
        ELSE Append(tbl, [device_id |-> device_id, time |-> t,
                          status |-> AdaptBool(status), error |-> err])

\* INSERT INTO device_status ... VALUES (?, datetime("now"), ?, ?)
InsertStatus(tbl, device_id, t, status, err) ==
    Append(tbl, [device_id |-> device_id, time |-> t,
                 status |-> AdaptBool(status), error |-> err])

\* SELECT * FROM device ... fetchall(): the rows in id order
RECURSIVE SelectAll(_)
SelectAll(tbl) ==
    IF tbl = {} THEN <<>>
    ELSE LET r == CHOOSE x \in tbl : \A y \in tbl : x.id <= y.id
         IN  <<r>> \o SelectAll(tbl \ {r})

----------------------------------------------------------------------------
(* The probe of one device, lines 222-236 *)

\* what the device and the network do to one read_coils call:
\*   ok          the device answers the read
\*   fault       the device answers with an exception response
\*   refused     the connection cannot be established
\*   timeout     the connection is established, the answer never arrives
\*   unencodable the connection is established, the request cannot be packed
\*               (register index that is not an unsigned 16-bit integer)
Conditions     == {"ok", "fault", "refused", "timeout", "unencodable"}
ExceptionCodes == {2}

\* ModbusExceptions.decode: the name of a known code, None otherwise
decode(code) == IF code = 2 THEN "IllegalAddress" ELSE NULL

\* client.read_coils(row['coil'], 1): what the call raises or returns
read_coils(coil, cond, code) ==
    IF cond = "refused"
    THEN [raised |-> "ConnectionException", exception_code |-> NoAttr]
    ELSE IF cond = "unencodable"
    THEN [raised |-> "struct.error", exception_code |-> NoAttr]
    ELSE IF cond = "fault"
    THEN [raised |-> "none", exception_code |-> code]
    ELSE [raised |-> "none", exception_code |-> NoAttr]

\* variant: an exception response counts as down
ProbeStatusStrict(res) == res.raised = "none" /\ res.exception_code = NoAttr

\* new_status after the try block
ProbeStatus(res) == res.raised # "ConnectionException"

\* error after the try block
ProbeError(res) ==
    IF res.raised = "none" /\ res.exception_code # NoAttr
    THEN decode(res.exception_code)
    ELSE "none"

\* an exception other than ConnectionException leaves the while loop
ProbeEscapes(res) == res.raised \notin {"none", "ConnectionException"}

----------------------------------------------------------------------------
Init ==
    /\ device = {}
    /\ device_seq = 0
    /\ device_status = <<>>
    /\ lock = {}
    /\ server_alive = NoFile
    /\ now = 0
    /\ dpc = "touch"
    /\ device_rows = <<>>
    /\ idx = 1
    /\ new_status = TRUE
    /\ error = "none"
    /\ wake = 0
    /\ cycle_base = 0
    /\ probed = NoProbe
    /\ wpc = [w \in Workers |-> "idle"]
    /\ form = [w \in Workers |-> NoForm]
    /\ g = NoG
    /\ flashed = [w \in Workers |-> "None"]

\* no data request is being served: the reads and the rendering of one request
\* are taken without another step in between
Quiet == g = NoG /\ UNCHANGED g

\* server_command waits: for the device, for the lock, for the end of the
\* sleep (time.sleep returns when its interval is over), or it has ended
Blocked ==
    \/ dpc \in {"probe", "crashed"}
    \/ dpc = "sleep" /\ now < wake
    \/ dpc = "acquire" /\ ~LockFree(lock)

\* one second passes while server_command waits
Advance(limit) ==
    /\ Quiet
    /\ now < limit
    /\ Blocked
    /\ now' = now + 1
    /\ UNCHANGED <<store_vars, lock, server_alive, daemon_vars, web_vars>>

Tick      == Advance(MaxTime)
ClockTick == Advance(MaxClock)

----------------------------------------------------------------------------
(* server_command, lines 214-246 *)

\* line 216: Path('server_alive').touch()
Touch ==
    /\ Quiet
    /\ dpc = "touch"
    /\ server_alive' = now
    /\ dpc' = "list"
    /\ UNCHANGED <<store_vars, lock, now, device_rows, idx, new_status, error,
                   wake, cycle_base, probed, web_vars>>

\* the loop head of line 220: the next row, or line 246 when the list is done
NextRow(rows, i) == IF i <= Len(rows) THEN "probe" ELSE "sleep"

\* line 219: device_rows = db.execute('SELECT * FROM device').fetchall()
List ==
    /\ Quiet
    /\ dpc = "list"
    /\ device_rows' = SelectAll(device)
    /\ idx' = 1
    /\ cycle_base' = Len(device_status)
    /\ dpc' = NextRow(device_rows', 1)
    /\ wake' = IF dpc' = "sleep" THEN now + SleepSeconds ELSE wake
    /\ UNCHANGED <<store_vars, lock, server_alive, now, new_status, error,
                   probed, web_vars>>

\* lines 222-236: probe device_rows[idx]
Probe(cond, code) ==
    /\ Quiet
    /\ dpc = "probe"
    /\ LET res == read_coils(device_rows[idx].coil, cond, code)
       IN  /\ new_status' = ProbeStatus(res)
           /\ error' = ProbeError(res)
           /\ dpc' = IF ProbeEscapes(res) THEN "crashed" ELSE "acquire"
    /\ probed' = [cond |-> cond, code |-> IF cond = "fault" THEN code ELSE NoAttr]
    /\ UNCHANGED <<store_vars, lock, server_alive, now, device_rows, idx,
                   wake, cycle_base, web_vars>>

\* line 239: with FileLock('db.lock')
ServerAcquire ==
    /\ Quiet
    /\ dpc = "acquire"
    /\ LockFree(lock)
    /\ lock' = LockAcquire(lock, Daemon)
    /\ dpc' = "insert"
    /\ UNCHANGED <<store_vars, server_alive, now, device_rows, idx, new_status,
                   error, wake, cycle_base, probed, web_vars>>

\* variant: the row of a device that was removed meanwhile is not written
ServerInsertSkipRemoved ==
    /\ Quiet
    /\ dpc = "insert"
    /\ device_status' =
          IF \E d \in device : d.id = device_rows[idx].id
          THEN InsertStatus(device_status, device_rows[idx].id, now, new_status, error)
          ELSE device_status
    /\ lock' = LockRelease(lock, Daemon)
    /\ idx' = idx + 1
    /\ new_status' = TRUE
    /\ error' = "none"
    /\ dpc' = NextRow(device_rows, idx + 1)
    /\ wake' = IF dpc' = "sleep" THEN now + SleepSeconds ELSE wake
    /\ probed' = NoProbe
    /\ UNCHANGED <<device, device_seq, server_alive, now, device_rows,
                   cycle_base, web_vars>>

\* variant: the lock is kept after the append
ServerInsertKeepsLock ==
    /\ Quiet
    /\ dpc = "insert"
    /\ device_status' = InsertStatus(device_status, device_rows[idx].id, now,
                                     new_status, error)
    /\ idx' = idx + 1
    /\ new_status' = TRUE
    /\ error' = "none"
    /\ dpc' = NextRow(device_rows, idx + 1)
    /\ wake' = IF dpc' = "sleep" THEN now + SleepSeconds ELSE wake
    /\ probed' = NoProbe
    /\ UNCHANGED <<device, device_seq, lock, server_alive, now, device_rows,
                   cycle_base, web_vars>>

\* lines 240-243: insert, commit, leave the with block; then the next row
\* (lines 223-224 re-initialise the locals) or line 246
ServerInsert ==
    /\ Quiet
    /\ dpc = "insert"
    /\ device_status' = InsertStatus(device_status, device_rows[idx].id, now,
                                     new_status, error)
    /\ lock' = LockRelease(lock, Daemon)
    /\ idx' = idx + 1
    /\ new_status' = TRUE
    /\ error' = "none"
    /\ dpc' = NextRow(device_rows, idx + 1)
    /\ wake' = IF dpc' = "sleep" THEN now + SleepSeconds ELSE wake
    /\ probed' = NoProbe
    /\ UNCHANGED <<device, device_seq, server_alive, now, device_rows,
                   cycle_base, web_vars>>

\* variant: the sleep is skipped
SleepReturnsAtOnce ==
    /\ Quiet
    /\ dpc = "sleep"
    /\ dpc' = "touch"
    /\ UNCHANGED <<store_vars, lock, server_alive, now, device_rows, idx,
                   new_status, error, wake, cycle_base, probed, web_vars>>

\* variant: the sleep ends 5 seconds after the heartbeat of the cycle
SleepFixedRate ==
    /\ Quiet
    /\ dpc = "sleep"
    /\ now >= server_alive + SleepSeconds
    /\ dpc' = "touch"
    /\ UNCHANGED <<store_vars, lock, server_alive, now, device_rows, idx,
                   new_status, error, wake, cycle_base, probed, web_vars>>

\* line 246: time.sleep(5) returns
Sleep ==
    /\ Quiet
    /\ dpc = "sleep"
    /\ now >= wake
    /\ dpc' = "touch"
    /\ UNCHANGED <<store_vars, lock, server_alive, now, device_rows, idx,
                   new_status, error, wake, cycle_base, probed, web_vars>>

\* lines 216-243: one pass of the while loop up to the sleep
poll_cycle ==
    \/ Touch
    \/ List
    \/ \E cond \in Conditions, code \in ExceptionCodes : Probe(cond, code)
    \/ ServerAcquire
    \/ ServerInsert

server_command == poll_cycle \/ Sleep

----------------------------------------------------------------------------
(* data, lines 83-156 *)

Max(S) == CHOOSE x \in S : \A y \in S : y <= x

\* rowids of the observations of one device
StatusOf(tbl, id) == {i \in DOMAIN tbl : tbl[i].device_id = id}

\* variant: MIN instead of MAX
StatusTimeMin(tbl, id) ==
    IF StatusOf(tbl, id) = {} THEN NoTime
    ELSE CHOOSE t \in {tbl[i].time : i \in StatusOf(tbl, id)} :
             \A i \in StatusOf(tbl, id) : t <= tbl[i].time

\* MAX(ds.time) ... GROUP BY dev.id, NULL for a device without observations
StatusTime(tbl, id) ==
    IF StatusOf(tbl, id) = {} THEN NoTime
    ELSE Max({tbl[i].time : i \in StatusOf(tbl, id)})

\* LEFT OUTER JOIN device_status AS ds
\*   ON ds.device_id = statid.id AND ds.time = statid.status_time
JoinDs(tbl, id) ==
    LET m == {i \in StatusOf(tbl, id) : tbl[i].time = StatusTime(tbl, id)}
    IN  IF m = {} THEN {[status |-> NoInt, error |-> NULL]}
        ELSE {[status |-> tbl[i].status, error |-> tbl[i].error] : i \in m}

\* LEFT OUTER JOIN device_status AS dsup ON dsup.device_id = statid.id
\*   AND dsup.time = statid.status_time AND dsup.status = True
JoinDsup(tbl, id) ==
    LET m == {i \in StatusOf(tbl, id) :
                 tbl[i].time = StatusTime(tbl, id) /\ tbl[i].status = 1}
    IN  IF m = {} THEN {NoTime} ELSE {tbl[i].time : i \in m}

\* the query of lines 86-92
db_rows(devs, tbl) ==
    UNION {{[id |-> d.id, name |-> d.name, ip |-> d.ip, coil |-> d.coil,
             status |-> ds.status, error |-> ds.error, seen_time |-> st]
            : ds \in JoinDs(tbl, d.id), st \in JoinDsup(tbl, d.id)}
           : d \in devs}

TwoDigits(n) == IF n < 10 THEN "0" \o ToString(n) ELSE ToString(n)

\* str(timedelta).split('.')[0] for a span below one day
FormatDelta(secs) ==
    ToString(secs \div 3600) \o ":" \o TwoDigits((secs % 3600) \div 60)
        \o ":" \o TwoDigits(secs % 60)

\* humanize.naturaldelta for a span below one hour
naturaldelta(secs) ==
    IF secs = 0 THEN "a moment"
    ELSE IF secs = 1 THEN "a second"
    ELSE IF secs < 60 THEN ToString(secs) \o " seconds"
    ELSE IF secs < 120 THEN "a minute"
    ELSE ToString(secs \div 60) \o " minutes"

\* variant: a missing status is read as falsy
RowStatusTruthy(r) == IF r.status = 1 THEN "up" ELSE "down"

\* lines 98-124
RowStatus(r) ==
    IF r.status = NoInt THEN "..." ELSE IF r.status = 1 THEN "up" ELSE "down"

RowUptime(r, t) ==
    IF r.status = NoInt THEN "..."
    ELSE IF r.status = 1
    THEN IF r.seen_time = NoTime THEN "just started"
         ELSE FormatDelta(t - r.seen_time)
    ELSE "n/a"

RowLastseen(r, t) ==
    IF r.status = NoInt THEN "..."
    ELSE IF r.status = 1 THEN "now"
    ELSE IF r.seen_time = NoTime THEN "never"
    ELSE naturaldelta(t - r.seen_time)

\* line 127
RowError(r) == IF r.error = NULL THEN "none" ELSE r.error

\* lines 95-139: g.device_rows
DeviceRows(devs, tbl, t) ==
    {[id |-> r.id, name |-> r.name, ip |-> r.ip, coil |-> r.coil,
      error |-> RowError(r), status |-> RowStatus(r),
      uptime |-> RowUptime(r, t), lastseen |-> RowLastseen(r, t)]
     : r \in db_rows(devs, tbl)}

\* variant: a marker exactly 10 seconds old still counts as fresh
ServerStatusInclusive(mtime, t) ==
    IF mtime = NoFile THEN "Dead"
    ELSE IF t - mtime <= AliveWindow THEN "Alive" ELSE "Dead"

\* lines 141-149: g.server_status
ServerStatus(mtime, t) ==
    IF mtime = NoFile THEN "Dead"
    ELSE IF t - mtime < AliveWindow THEN "Alive" ELSE "Dead"

\* lines 152-153: g.last_status_check
LastStatusCheck(tbl, t) ==
    IF tbl = <<>> THEN "Never"
    ELSE naturaldelta(t - Max({tbl[i].time : i \in DOMAIN tbl}))

\* lines 85-153: fill flask.g; the reads of one request are taken at one instant
Data ==
    /\ g = NoG
    /\ g' = [device_rows       |-> DeviceRows(device, device_status, now),
             server_status     |-> ServerStatus(server_alive, now),
             last_status_check |-> LastStatusCheck(device_status, now)]
    /\ UNCHANGED <<store_vars, lock, server_alive, now, daemon_vars, web_vars>>

\* line 156 and close_db: the page is rendered and the request context dropped
Render ==
    /\ g # NoG
    /\ g' = NoG
    /\ UNCHANGED <<store_vars, lock, server_alive, now, daemon_vars, web_vars>>

data == Data \/ Render

----------------------------------------------------------------------------
(* add, lines 32-65 *)

\* variant: the coil field is not validated
AddErrorNoCoil(tbl, name, ip, coil) ==
    IF name = "" THEN "Device name is required."
    ELSE IF ip = "" THEN "IP address is required."
    ELSE IF NameTaken(tbl, name) THEN "Device name is already taken."
    ELSE "None"

\* lines 40-50
AddError(tbl, name, ip, coil) ==
    IF name = "" THEN "Device name is required."
    ELSE IF ip = "" THEN "IP address is required."
    ELSE IF coil = "" THEN "Coil is required."
    ELSE IF NameTaken(tbl, name) THEN "Device name is already taken."
    ELSE "None"

\* add requests that passed line 54 and have not inserted yet
AddsInFlight == Cardinality({w \in DOMAIN wpc : wpc[w] \in {"add_acquire", "add_insert"}})

\* lines 35-54
AddCheck(w, name, ip, coil) ==
    /\ Quiet
    /\ wpc[w] = "idle"
    /\ LET err == AddError(device, name, ip, coil)
       IN  IF err = "None"
           THEN /\ device_seq + AddsInFlight < MaxDevices
                /\ form' = [form EXCEPT ![w] = [name |-> name, ip |-> ip, coil |-> coil]]
                /\ wpc' = [wpc EXCEPT ![w] = "add_acquire"]
                /\ UNCHANGED flashed
           ELSE /\ flashed' = [flashed EXCEPT ![w] = err]
                /\ wpc' = [wpc EXCEPT ![w] = "flash"]
                /\ UNCHANGED form
    /\ UNCHANGED <<store_vars, lock, server_alive, now, daemon_vars>>

\* line 55: with FileLock('db.lock')
AddAcquire(w) ==
    /\ Quiet
    /\ wpc[w] = "add_acquire"
    /\ LockFree(lock)
    /\ lock' = LockAcquire(lock, w)
    /\ wpc' = [wpc EXCEPT ![w] = "add_insert"]
    /\ UNCHANGED <<store_vars, server_alive, now, daemon_vars, form, flashed>>

\* lines 56-61: insert, commit, leave the with block, redirect
AddInsert(w) ==
    /\ Quiet
    /\ wpc[w] = "add_insert"
    /\ device' = InsertDevice(device, device_seq, form[w].name, form[w].ip, form[w].coil)
    /\ device_seq' = device_seq + 1
    /\ lock' = LockRelease(lock, w)
    /\ form' = [form EXCEPT ![w] = NoForm]
    /\ wpc' = [wpc EXCEPT ![w] = "idle"]
    /\ UNCHANGED <<device_status, server_alive, now, daemon_vars, flashed>>

\* lines 64-65: flash(error) and redirect
AddFlash(w) ==
    /\ Quiet
    /\ wpc[w] = "flash"
    /\ flashed' = [flashed EXCEPT ![w] = "None"]
    /\ wpc' = [wpc EXCEPT ![w] = "idle"]
    /\ UNCHANGED <<store_vars, lock, server_alive, now, daemon_vars, form>>

----------------------------------------------------------------------------
(* remove, lines 70-78 *)

\* line 74: with FileLock('db.lock')
RemoveAcquire(w) ==
    /\ Quiet
    /\ wpc[w] = "idle"
    /\ LockFree(lock)
    /\ lock' = LockAcquire(lock, w)
    /\ wpc' = [wpc EXCEPT ![w] = "remove_delete"]
    /\ UNCHANGED <<store_vars, server_alive, now, daemon_vars, form, flashed>>

\* variant: the observations of the removed device are deleted with it
RemoveDeleteCascade(w, name) ==
    /\ Quiet
    /\ wpc[w] = "remove_delete"
    /\ device' = DeleteDevice(device, name)
    /\ LET Kept(r) == \E d \in device' : d.id = r.device_id
       IN  device_status' = SelectSeq(device_status, Kept)
    /\ lock' = LockRelease(lock, w)
    /\ wpc' = [wpc EXCEPT ![w] = "idle"]
    /\ UNCHANGED <<device_seq, server_alive, now, daemon_vars, form, flashed>>

\* lines 75-78: delete, commit, leave the with block, redirect
RemoveDelete(w, name) ==
    /\ Quiet
    /\ wpc[w] = "remove_delete"
    /\ device' = DeleteDevice(device, name)
    /\ lock' = LockRelease(lock, w)
    /\ wpc' = [wpc EXCEPT ![w] = "idle"]
    /\ UNCHANGED <<device_seq, device_status, server_alive, now, daemon_vars,
                   form, flashed>>

----------------------------------------------------------------------------
\* the requests of the management surface with form fields from the given sets
web(names, ips, coils) ==
    \/ \E w \in DOMAIN wpc, name \in names, ip \in ips, coil \in coils :
          AddCheck(w, name, ip, coil)
    \/ \E w \in DOMAIN wpc : AddAcquire(w)
    \/ \E w \in DOMAIN wpc : AddInsert(w)
    \/ \E w \in DOMAIN wpc : AddFlash(w)
    \/ \E w \in DOMAIN wpc : RemoveAcquire(w)
    \/ \E w \in DOMAIN wpc, name \in names : RemoveDelete(w, name)

Next ==
    \/ Tick
    \/ server_command
    \/ web(Filled(Names), Filled(Ips), Filled(Coils))
    \/ data

(* One web worker that sends complete forms, the daemon, the clock *)
Spec == Init /\ [][Next]_vars

(* Two web workers and the first cycle of the daemon, the clock stopped *)
InitWeb ==
    /\ device = {}
    /\ device_seq = 0
    /\ device_status = <<>>
    /\ lock = {}
    /\ server_alive = NoFile
    /\ now = 0
    /\ dpc = "touch"
    /\ device_rows = <<>>
    /\ idx = 1
    /\ new_status = TRUE
    /\ error = "none"
    /\ wake = 0
    /\ cycle_base = 0
    /\ probed = NoProbe
    /\ wpc = [w \in RaceWorkers |-> "idle"]
    /\ form = [w \in RaceWorkers |-> NoForm]
    /\ g = NoG
    /\ flashed = [w \in RaceWorkers |-> "None"]

NextWeb ==
    \/ poll_cycle
    \/ web(Names, Ips, Coils)

SpecWeb == InitWeb /\ [][NextWeb]_vars

(* Two web workers that send complete forms and the first cycle of the daemon,
   with store operations that raise inside the with block, and the scheduling
   that the blocking calls rely on *)

\* lines 239-243: execute or commit raises; the with block releases the lock
\* on the way out and the exception leaves the while loop
ServerInsertFails ==
    /\ Quiet
    /\ dpc = "insert"
    /\ lock' = LockRelease(lock, Daemon)
    /\ dpc' = "crashed"
    /\ UNCHANGED <<store_vars, server_alive, now, device_rows, idx, new_status,
                   error, wake, cycle_base, probed, web_vars>>

\* variant: the request ends with the lock still held
AddInsertFailsHolding(w) ==
    /\ Quiet
    /\ wpc[w] = "add_insert"
    /\ form' = [form EXCEPT ![w] = NoForm]
    /\ wpc' = [wpc EXCEPT ![w] = "idle"]
    /\ UNCHANGED <<store_vars, lock, server_alive, now, daemon_vars, flashed>>

\* lines 55-60: execute or commit raises; the with block releases the lock on
\* the way out and the request ends with an error response
AddInsertFails(w) ==
    /\ Quiet
    /\ wpc[w] = "add_insert"
    /\ lock' = LockRelease(lock, w)
    /\ form' = [form EXCEPT ![w] = NoForm]
    /\ wpc' = [wpc EXCEPT ![w] = "idle"]
    /\ UNCHANGED <<store_vars, server_alive, now, daemon_vars, flashed>>

\* lines 74-77: the same for remove
RemoveDeleteFails(w) ==
    /\ Quiet
    /\ wpc[w] = "remove_delete"
    /\ lock' = LockRelease(lock, w)
    /\ wpc' = [wpc EXCEPT ![w] = "idle"]
    /\ UNCHANGED <<store_vars, server_alive, now, daemon_vars, form, flashed>>

NextWebFail ==
    \/ poll_cycle
    \/ web(Filled(Names), Filled(Ips), Filled(Coils))
    \/ ServerInsertFails
    \/ \E w \in DOMAIN wpc : AddInsertFails(w)
    \/ \E w \in DOMAIN wpc : RemoveDeleteFails(w)

\* a process inside a with block leaves it; FileLock.acquire polls the lock, so
\* a process that finds it free again and again gets it
FairWeb ==
    /\ InitWeb
    /\ [][NextWebFail]_vars
    /\ WF_vars(ServerInsert \/ ServerInsertFails)
    /\ SF_vars(ServerAcquire)
    /\ \A w \in RaceWorkers :
          /\ WF_vars(AddInsert(w) \/ AddInsertFails(w))
          /\ WF_vars((\E name \in Names : RemoveDelete(w, name)) \/ RemoveDeleteFails(w))
          /\ SF_vars(AddAcquire(w))

(* The daemon, the clock and the dashboard over a registry that is left alone *)

\* the device table after k adds
Registered(k) ==
    {[id |-> i, name |-> IF i = 1 THEN "a" ELSE "b", ip |-> "h", coil |-> "1"] :
        i \in 1..k}

InitClock ==
    /\ \E k \in 0..Cardinality(Filled(Names)) :
          /\ device = Registered(k)
          /\ device_seq = k
    /\ device_status = <<>>
    /\ lock = {}
    /\ server_alive = NoFile
    /\ now = 0
    /\ dpc = "touch"
    /\ device_rows = <<>>
    /\ idx = 1
    /\ new_status = TRUE
    /\ error = "none"
    /\ wake = 0
    /\ cycle_base = 0
    /\ probed = NoProbe
    /\ wpc = [w \in Workers |-> "idle"]
    /\ form = [w \in Workers |-> NoForm]
    /\ g = NoG
    /\ flashed = [w \in Workers |-> "None"]

NextClock ==
    \/ ClockTick
    \/ server_command
    \/ data

SpecClock == InitClock /\ [][NextClock]_vars

\* SpecClock with the scheduling the loop relies on: every statement of the
\* loop body is executed, every read_coils call returns or raises, the lock is
\* handed over when it is free, the sleep ends, time passes. The daemon is a
\* process of its own: the dashboard requests served in between do not keep
\* it from its next step, and each of them comes to its end.
FairClock ==
    /\ SpecClock
    /\ WF_vars(Render)
    /\ SF_vars(Touch)
    /\ SF_vars(List)
    /\ SF_vars(\E cond \in Conditions, code \in ExceptionCodes : Probe(cond, code))
    /\ SF_vars(ServerAcquire)
    /\ SF_vars(ServerInsert)
    /\ SF_vars(Sleep)
    /\ SF_vars(ClockTick)

----------------------------------------------------------------------------
(* Properties *)

\* ids of the rows of a fetched device list
ListIds(rows) == {rows[j].id : j \in DOMAIN rows}

\* rowids of the observations appended since the current list was fetched
CycleRows == (cycle_base + 1)..Len(device_status)

\* some observation of the device says up
EverUp(id) == \E i \in StatusOf(device_status, id) : device_status[i].status = 1

\* the observation appended last for the device
LastRow(id) == device_status[Max(StatusOf(device_status, id))]

\* C1: on the page of a data request, a device whose latest observation is
\* down shows last-seen "never" exactly when none of its observations is up.
C1_NeverIffNeverUp ==
    g # NoG =>
        \A r \in g.device_rows :
            r.status = "down" => (r.lastseen = "never" <=> ~EverUp(r.id))

C3_GuardedWrites ==
    /\ [](Cardinality(lock) <= 1)
    /\ [][/\ device' # device =>
                \E w \in lock \cap DOMAIN wpc :
                    /\ wpc[w] \in {"add_insert", "remove_delete"}
                    /\ wpc'[w] = "idle"
          /\ device_status' # device_status =>
                Daemon \in lock /\ dpc = "insert"]_vars

\* a worker waits for the lock the daemon holds, after a device was inserted
C3_Witness ==
    /\ lock = {Daemon}
    /\ dpc = "insert"
    /\ device # {}
    /\ \E w \in DOMAIN wpc : wpc[w] = "add_acquire"

\* C4: the observations appended since the list was fetched are those of the
\* first idx - 1 listed devices, one each and in list order; when the cycle
\* is complete every listed device has exactly one, whatever its previous
\* status, and no other device has any.
C4_OnePerDevicePerCycle ==
    /\ Len(device_status) - cycle_base = idx - 1
    /\ \A i \in CycleRows : device_status[i].device_id = device_rows[i - cycle_base].id
    /\ dpc \in {"sleep", "touch", "list"} => idx - 1 = Len(device_rows)

\* a completed cycle repeated the previous status of a device
C4_Witness ==
    /\ dpc = "sleep"
    /\ \E i \in CycleRows : \E j \in 1..cycle_base :
          /\ device_status[j].device_id = device_status[i].device_id
          /\ device_status[j].status = device_status[i].status

\* C5: the observation appended for a probe is down exactly when the
\* connection was refused, and then has error "none"; a device that answered
\* with an exception code is up with the decoded code as error; a device
\* that answered the read is up with error "none".
C5_Classification ==
    [][dpc = "insert" /\ dpc' # "insert" =>
          LET o == device_status'[Len(device_status')]
          IN  /\ Len(device_status') = Len(device_status) + 1
              /\ o.status = 0 <=> probed.cond = "refused"
              /\ probed.cond = "refused" => o.error = "none"
              /\ probed.cond = "ok" => o.status = 1 /\ o.error = "none"
              /\ probed.cond = "fault" =>
                    o.status = 1 /\ o.error = decode(probed.code)]_vars

\* the ledger holds an up row with a fault code, an up row without and a down row
C5_Witness ==
    /\ \E i \in DOMAIN device_status :
          device_status[i].status = 1 /\ device_status[i].error = "IllegalAddress"
    /\ \E i \in DOMAIN device_status :
          device_status[i].status = 1 /\ device_status[i].error = "none"
    /\ \E i \in DOMAIN device_status :
          device_status[i].status = 0 /\ device_status[i].error = "none"

\* C6: a probe that fails in transport, while connecting or during the read,
\* is recorded as down.
C6_TransportFailureIsDown ==
    [][dpc = "insert" /\ dpc' # "insert" /\ probed.cond \in {"refused", "timeout"} =>
          device_status'[Len(device_status')].status = 0]_vars

\* C7: no failure of a probe leaves the polling loop.
C7_NeverLeavesLoop == dpc # "crashed"

\* C8: the list is a snapshot. Observations of the current cycle belong to
\* listed devices; a registered device that is not listed has no observation
\* yet; once the cycle is complete every listed device, removed or not, has
\* exactly one observation of this cycle; and each fetch takes the table as
\* it is then.
C8_Snapshot ==
    /\ [](/\ \A i \in CycleRows : device_status[i].device_id \in ListIds(device_rows)
          /\ \A d \in device :
                d.id \notin ListIds(device_rows) => StatusOf(device_status, d.id) = {}
          /\ dpc = "sleep" =>
                \A id \in ListIds(device_rows) :
                    Cardinality(StatusOf(device_status, id) \cap CycleRows) = 1)
    /\ [][dpc = "list" /\ dpc' # "list" =>
              ListIds(device_rows') = {d.id : d \in device}]_vars

\* a completed cycle left an observation of a device that was removed after
\* the fetch, and none of a device that was added after the fetch
C8_Witness ==
    /\ dpc = "sleep"
    /\ \E id \in ListIds(device_rows) :
          /\ id \notin {d.id : d \in device}
          /\ StatusOf(device_status, id) \cap CycleRows # {}
    /\ \E d \in device : d.id \notin ListIds(device_rows)

\* C9: on the page of a data request every registered device has a row, and
\* a device without observations shows the placeholder as status, uptime and
\* last-seen.
C9_PendingBeforeFirstObservation ==
    g # NoG =>
        /\ \A d \in device : \E r \in g.device_rows : r.id = d.id
        /\ \A r \in g.device_rows :
              StatusOf(device_status, r.id) = {} =>
                  r.status = "..." /\ r.uptime = "..." /\ r.lastseen = "..."

\* a page that shows a device without observations next to an observed one
C9_Witness ==
    /\ g # NoG
    /\ \E r \in g.device_rows : StatusOf(device_status, r.id) = {}
    /\ \E r \in g.device_rows : StatusOf(device_status, r.id) # {}

\* C10: on the page of a data request every device with observations has
\* one row, and its status is "up" or "down" as the observation appended
\* last for it says.
C10_StatusIsLastAppended ==
    g # NoG =>
        \A d \in device :
            StatusOf(device_status, d.id) # {} =>
                /\ \E r \in g.device_rows : r.id = d.id
                /\ \A r \in g.device_rows :
                      r.id = d.id =>
                          r.status = IF LastRow(d.id).status = 1 THEN "up" ELSE "down"

\* a page that shows a device whose last two observations differ
C10_Witness ==
    /\ g # NoG
    /\ \E r \in g.device_rows :
          \E i \in StatusOf(device_status, r.id) :
              device_status[i].status # LastRow(r.id).status

\* C11: the observations of one device have strictly increasing times in the
\* order in which they were appended.
C11_TimesIncrease ==
    \A i \in DOMAIN device_status : \A j \in DOMAIN device_status :
        (i < j /\ device_status[i].device_id = device_status[j].device_id) =>
            device_status[i].time < device_status[j].time

\* a device has two observations
C11_Witness ==
    \E i \in DOMAIN device_status : \E j \in DOMAIN device_status :
        i < j /\ device_status[i].device_id = device_status[j].device_id

\* the messages add() can flash
AddMessages ==
    {"Device name is required.", "IP address is required.", "Coil is required.",
     "Device name is already taken."}

\* C12: a rejected add mutates nothing. An add request passes validation only
\* with a non-empty name, address and coil and a name no device row has at
\* that moment; every other request goes to the error path, which carries one
\* of the error messages and leaves the device table and the observations
\* unchanged, in the rejecting step and in the step that flashes the message.
C12_RejectedAddMutatesNothing ==
    [][\A w \in DOMAIN wpc :
          /\ (wpc[w] = "idle" /\ wpc'[w] = "add_acquire") =>
                 /\ form'[w].name # "" /\ form'[w].ip # "" /\ form'[w].coil # ""
                 /\ ~NameTaken(device, form'[w].name)
          /\ (wpc[w] = "idle" /\ wpc'[w] = "flash") =>
                 /\ flashed'[w] \in AddMessages
                 /\ UNCHANGED store_vars
          /\ (wpc[w] = "flash" /\ wpc'[w] # "flash") =>
                 /\ wpc'[w] = "idle"
                 /\ UNCHANGED store_vars]_vars

\* an add with the name of an existing device is on the error path while the
\* table still holds exactly one row of that name
C12_Witness ==
    \E w \in DOMAIN wpc : \E n \in Filled(Names) :
        /\ wpc[w] = "flash"
        /\ flashed[w] = "Device name is already taken."
        /\ Cardinality({d \in device : d.name = n}) = 1
        /\ Cardinality(device) = 1

\* C13: a page reports the daemon "Alive" exactly when the heartbeat marker
\* exists and was touched less than 10 seconds before the request; with no
\* marker, or a marker 10 seconds old or older, it reports "Dead".
C13_HeartbeatFreshness ==
    g # NoG =>
        /\ g.server_status \in {"Alive", "Dead"}
        /\ g.server_status = "Alive" <=>
               (server_alive # NoFile /\ now - server_alive < AliveWindow)

\* a page reports "Dead" although the marker exists: it is too old
C13_Witness ==
    /\ g # NoG
    /\ g.server_status = "Dead"
    /\ server_alive # NoFile
    /\ now - server_alive > AliveWindow

\* C14: a page served while server_command is inside its loop, after the
\* heartbeat of the cycle (reading the list, probing, appending or sleeping),
\* reports the daemon "Alive", whatever the number of devices and however
\* long the probes take.
C14_RunningIsAlive ==
    (g # NoG /\ dpc \in {"list", "probe", "acquire", "insert", "sleep"}) =>
        g.server_status = "Alive"

\* the process is inside a with FileLock block
InGuarded(p) ==
    IF p = Daemon THEN dpc = "insert"
    ELSE wpc[p] \in {"add_insert", "remove_delete"}

\* C15: the guard is held by exactly the processes inside a guarded section,
\* so a process that has left its section, normally or because the store
\* operation raised, no longer holds it; and a process that waits for the
\* guard, an add or the daemon's append, eventually gets it.
C15_GuardReleased ==
    /\ [](lock = {p \in RaceWorkers \cup {Daemon} : InGuarded(p)})
    /\ \A w \in RaceWorkers : (wpc[w] = "add_acquire") ~> (wpc[w] = "add_insert")
    /\ (dpc = "acquire") ~> (dpc = "insert")

\* the daemon's append raised and ended the daemon, and a worker is inside
\* its guarded section with the guard that the daemon had to give up for it
C15_Witness ==
    /\ dpc = "crashed"
    /\ probed.cond # "unencodable"
    /\ \E w \in RaceWorkers :
          /\ lock = {w}
          /\ wpc[w] \in {"add_insert", "remove_delete"}

\* C16: the observations are append-only and the daemon leaves the device
\* table alone. Every step keeps the existing observation rows as they are
\* and adds at most one row at the end; only the daemon's append adds one; a
\* step of the daemon leaves the device table unchanged.
C16_AppendOnly ==
    [][/\ Len(device_status') \in {Len(device_status), Len(device_status) + 1}
       /\ SubSeq(device_status', 1, Len(device_status)) = device_status
       /\ device_status' # device_status => dpc = "insert" /\ dpc' # dpc
       /\ dpc' # dpc => device' = device /\ device_seq' = device_seq]_vars

\* the observation of a device that has been removed is still there
C16_Witness ==
    \E i \in DOMAIN device_status :
        /\ device_status[i].device_id <= device_seq
        /\ \A d \in device : d.id # device_status[i].device_id

\* C17: on the page of a data request, a device whose latest observation is
\* up and that has no up observation before that one shows uptime
\* "just started".
C17_JustStarted ==
    g # NoG =>
        \A r \in g.device_rows :
            (/\ r.status = "up"
             /\ \A i \in StatusOf(device_status, r.id) :
                    device_status[i].status = 1 =>
                        i = Max(StatusOf(device_status, r.id)))
            => r.uptime = "just started"

\* the heartbeat step that starts a cycle after an earlier one; server_alive
\* is still the start of the earlier cycle and wake - SleepSeconds its end
NextCycleStarts == dpc = "touch" /\ dpc' = "list" /\ server_alive # NoFile

\* C18: the next cycle starts exactly 5 seconds after the end of the current
\* one, hence 5 seconds plus the duration of the current cycle after its
\* start, and exactly 5 seconds after its start only when the cycle took no
\* time; it starts only when every device of the current list has been handled.
C18_IntervalFromCycleEnd ==
    [][NextCycleStarts =>
          /\ now = wake
          /\ now >= server_alive + SleepSeconds
          /\ now = server_alive + SleepSeconds <=> wake - SleepSeconds = server_alive
          /\ idx = Len(device_rows) + 1]_vars

\* C18 as stated: when the probes and appends of a cycle took less than 5
\* seconds, the next cycle starts exactly 5 seconds after the start of that
\* cycle.
C18_IntervalFromCycleStart ==
    [][(NextCycleStarts /\ (wake - SleepSeconds) - server_alive < SleepSeconds) =>
          now = server_alive + SleepSeconds]_vars

\* the second cycle has started after a first one that took between 1 and 4
\* seconds
C18_Witness ==
    /\ dpc = "list"
    /\ server_alive - SleepSeconds \in 1..(SleepSeconds - 1)

\* C19: every cycle that server_command has started is completed: from the
\* list fetch, a probe, the wait for the lock or an append the daemon reaches
\* the sleep that ends the cycle.
C19_CycleCompletes ==
    (dpc \in {"list", "probe", "acquire", "insert"}) ~> (dpc = "sleep")

\* C20: the daemon holds the guard only for one append. Whenever it holds the
\* guard it is at its INSERT, never at the heartbeat, the list fetch, a probe
\* or the sleep; no time passes while it holds the guard; and its next step
\* appends one row and gives the guard back.
C20_GuardOnlyForAppend ==
    /\ [](Daemon \in lock => dpc = "insert")
    /\ [][(Daemon \in lock) =>
             (now' = now /\
              (dpc' # dpc =>
                  (Daemon \notin lock' /\
                   Len(device_status') = Len(device_status) + 1)))]_vars

\* after an append the daemon probes the next device without the guard, while
\* a request of the management surface is inside its guarded section
C20_Witness ==
    /\ dpc = "probe"
    /\ Len(device_status) > cycle_base
    /\ \E w \in DOMAIN wpc :
          /\ lock = {w}
          /\ wpc[w] \in {"add_insert", "remove_delete"}

====
